---- MODULE Spec2Model ----
(***************************************************************************)
(* State-machine model of the two game helpers of word-connector:          *)
(*   - pyramid.py : the $100,000 Pyramid host/display (GameState,          *)
(*                  HostWindow), checked under SpecPyramid;                *)
(*   - main.py    : the Chain Reaction final round (GameState, App),       *)
(*                  checked under SpecChain.                               *)
(* The two programs share no state; each specification leaves the other    *)
(* program's variables unchanged.                                          *)
(*                                                                         *)
(* The six prompt entries of the Pyramid host are state (clear_entries      *)
(* writes them).  The other widgets (seconds spinbox, chain text box,      *)
(* timer entry, index spinbox, guess entry) are inputs of the handler      *)
(* that reads them: the host can retype them between any two handler       *)
(* calls, so every handler may see any of their values.                    *)
(***************************************************************************)
EXTENDS Integers, Sequences, FiniteSets, TLC

VARIABLES
  \* ---- pyramid.py ----
  prompts,            \* GameState.prompts: 0..5 -> string
  correct,            \* GameState.correct: 0..5 -> BOOLEAN
  remaining_seconds,  \* GameState.remaining_seconds
  timer_running,      \* GameState.timer_running
  reveal_upto,        \* GameState.reveal_upto
  entry_vars,         \* HostWindow.entry_vars: what the host has typed
  tick_jobs,          \* number of HostWindow._tick callbacks scheduled with after()
  finale_count,       \* number of HostWindow._do_all_six calls since the last unmark_all
  stale_jobs,         \* how many of the tick_jobs were scheduled before the last stop_timer call
  p_expired,          \* number of "TIME!" signals since the last start_timer that started the timer
  p_call,             \* the last pyramid handler that ran, with its argument
  \* ---- main.py ----
  words,              \* GameState.words: sequence of words (sequences of characters)
  revealed,           \* GameState.revealed: per word, sequence of BOOLEAN
  withheld_last,      \* GameState.withheld_last: per word, BOOLEAN
  app_timer_running,  \* App.timer_running
  timer_seconds,      \* App.timer_seconds
  timer_job,          \* App._timer_job: id of the last scheduled tick, or None
  after_jobs,         \* ids of App._update_timer_tick callbacks scheduled and not cancelled
  c_stale,            \* the after_jobs that were scheduled before the last pause or reset
  c_expired,          \* number of "Timer finished." signals since the timer was last started
  c_call              \* the last chain operation that ran: <<name, index passed to the engine
                      \* (-1 if none), guess or text argument, returned value,
                      \* withheld_last[index] before>>

pvars == <<prompts, correct, remaining_seconds, timer_running, reveal_upto,
           entry_vars, tick_jobs, finale_count, stale_jobs, p_expired, p_call>>
cvars == <<words, revealed, withheld_last, app_timer_running, timer_seconds,
           timer_job, after_jobs, c_stale, c_expired, c_call>>
vars == <<pvars, cvars>>

\* ------------------------------------------------------------------------
\* Bounds of the model
\* ------------------------------------------------------------------------
MaxSeconds == 2      \* largest value the host enters as the seconds setting
MaxTickJobs == 2     \* cap on simultaneously scheduled pyramid _tick callbacks
MaxAfterJobs == 2    \* cap on simultaneously scheduled chain tick callbacks

\* ------------------------------------------------------------------------
\* pyramid.py
\* ------------------------------------------------------------------------
NumPrompts == 6
PromptIdx == 0..(NumPrompts - 1)
DefaultRemaining == 60

\* what the host may have typed in the six entries
BlankEntries == [i \in PromptIdx |-> ""]
SampleEntries == [i \in PromptIdx |-> IF i = 0 THEN "Things that fly" ELSE IF i = 3 THEN " " ELSE "x"]
EntryChoices == {BlankEntries, SampleEntries}

\* values of the seconds spinbox variable
SecondsChoices == (-1)..MaxSeconds

\* arguments mark_correct is called with (the six buttons, and two indices outside them)
MarkArgs == (-1)..NumPrompts

Max(a, b) == IF a >= b THEN a ELSE b
Min(a, b) == IF a <= b THEN a ELSE b

all_correct(c) == \A i \in PromptIdx : c[i]

current_index(c) ==
  IF \E i \in PromptIdx : ~c[i]
    THEN CHOOSE i \in PromptIdx : ~c[i] /\ \A j \in PromptIdx : j < i => c[j]
    ELSE -1

\* DisplayWindow.set_reveal_upto clamps the cursor it is handed
set_reveal_upto(u) == Max(0, Min(5, u))

PInit ==
  /\ entry_vars = BlankEntries
  /\ prompts = BlankEntries
  /\ correct = [i \in PromptIdx |-> FALSE]
  /\ remaining_seconds = DefaultRemaining
  /\ timer_running = FALSE
  /\ reveal_upto = 0
  /\ tick_jobs = 0
  /\ finale_count = 0
  /\ stale_jobs = 0
  /\ p_expired = 0
  /\ p_call = <<"init", 0>>

\* the host edits the six entries
type_entries(e) ==
  /\ entry_vars' = e
  /\ p_call' = <<"type_entries", 0>>
  /\ UNCHANGED <<prompts, correct, remaining_seconds, timer_running, reveal_upto,
                 tick_jobs, finale_count, stale_jobs, p_expired>>

\* send_to_display that rewinds the cursor to the first prompt
send_to_display_RewindCursor ==
  /\ prompts' = entry_vars
  /\ reveal_upto' = 0
  /\ p_call' = <<"send_to_display", 0>>
  /\ UNCHANGED <<correct, remaining_seconds, timer_running, entry_vars,
                 tick_jobs, finale_count, stale_jobs, p_expired>>

send_to_display ==
  /\ prompts' = entry_vars
  /\ LET cur == current_index(correct)
     IN reveal_upto' = set_reveal_upto(IF cur >= 0 THEN cur ELSE 5)
  /\ p_call' = <<"send_to_display", 0>>
  /\ UNCHANGED <<correct, remaining_seconds, timer_running, entry_vars,
                 tick_jobs, finale_count, stale_jobs, p_expired>>

clear_entries ==
  /\ entry_vars' = BlankEntries
  /\ prompts' = BlankEntries
  /\ LET cur == current_index(correct)
     IN reveal_upto' = set_reveal_upto(IF cur >= 0 THEN cur ELSE 5)
  /\ p_call' = <<"clear_entries", 0>>
  /\ UNCHANGED <<correct, remaining_seconds, timer_running, tick_jobs, finale_count,
                 stale_jobs, p_expired>>

\* unmark_all that forgets the cursor
unmark_all_KeepCursor ==
  /\ correct' = [i \in PromptIdx |-> FALSE]
  /\ finale_count' = 0
  /\ p_call' = <<"unmark_all", 0>>
  /\ UNCHANGED <<prompts, remaining_seconds, timer_running, reveal_upto, entry_vars,
                 tick_jobs, stale_jobs, p_expired>>

unmark_all ==
  /\ correct' = [i \in PromptIdx |-> FALSE]
  /\ reveal_upto' = 0
  /\ finale_count' = 0
  /\ p_call' = <<"unmark_all", 0>>
  /\ UNCHANGED <<prompts, remaining_seconds, timer_running, entry_vars, tick_jobs,
                 stale_jobs, p_expired>>

\* shared tail of the mark_correct variants below: what the handler does once it
\* has decided to mark prompt idx, advancing the cursor to r2
MarkEffect(idx, r2, finale) ==
  /\ correct' = [correct EXCEPT ![idx] = TRUE]
  /\ reveal_upto' = set_reveal_upto(r2)
  /\ IF finale
       THEN \* _do_all_six: stop_timer, banner, win sound
            /\ timer_running' = FALSE
            /\ stale_jobs' = tick_jobs
            /\ finale_count' = finale_count + 1
       ELSE UNCHANGED <<timer_running, stale_jobs, finale_count>>
  /\ UNCHANGED <<prompts, remaining_seconds, entry_vars, tick_jobs, p_expired>>

PNoChange ==
  UNCHANGED <<prompts, correct, remaining_seconds, timer_running,
              reveal_upto, entry_vars, tick_jobs, finale_count, stale_jobs, p_expired>>

\* mark_correct without the `idx != cur` gate
mark_correct_NoGate(idx) ==
  /\ p_call' = <<"mark_correct", idx>>
  /\ IF idx \notin PromptIdx \/ current_index(correct) = -1 \/ correct[idx]
       THEN PNoChange
       ELSE MarkEffect(idx, IF idx < 5 THEN Max(reveal_upto, idx + 1) ELSE reveal_upto,
                       all_correct([correct EXCEPT ![idx] = TRUE]))

\* mark_correct that does not advance the cursor
mark_correct_NoAdvance(idx) ==
  LET cur == current_index(correct) IN
  /\ p_call' = <<"mark_correct", idx>>
  /\ IF cur = -1 \/ idx # cur \/ correct[idx]
       THEN PNoChange
       ELSE MarkEffect(idx, reveal_upto, all_correct([correct EXCEPT ![idx] = TRUE]))

\* mark_correct that advances the cursor one prompt too far
mark_correct_SkipOne(idx) ==
  LET cur == current_index(correct) IN
  /\ p_call' = <<"mark_correct", idx>>
  /\ IF cur = -1 \/ idx # cur \/ correct[idx]
       THEN PNoChange
       ELSE MarkEffect(idx, IF idx < 5 THEN Max(reveal_upto, idx + 2) ELSE reveal_upto,
                       all_correct([correct EXCEPT ![idx] = TRUE]))

\* mark_correct that runs the finale check also when the round is already won
mark_correct_FinaleAgain(idx) ==
  LET cur == current_index(correct) IN
  /\ p_call' = <<"mark_correct", idx>>
  /\ IF cur = -1
       THEN IF idx \in PromptIdx
              THEN /\ timer_running' = FALSE
                   /\ stale_jobs' = tick_jobs
                   /\ finale_count' = finale_count + 1
                   /\ UNCHANGED <<prompts, correct, remaining_seconds, reveal_upto,
                                  entry_vars, tick_jobs, p_expired>>
              ELSE PNoChange
       ELSE IF idx # cur \/ correct[idx]
         THEN PNoChange
         ELSE MarkEffect(idx, IF idx < 5 THEN Max(reveal_upto, idx + 1) ELSE reveal_upto,
                         all_correct([correct EXCEPT ![idx] = TRUE]))

mark_correct(idx) ==
  LET cur == current_index(correct) IN
  /\ p_call' = <<"mark_correct", idx>>
  /\ IF cur = -1 \/ idx # cur \/ correct[idx]
       THEN PNoChange
       ELSE MarkEffect(idx, IF idx < 5 THEN Max(reveal_upto, idx + 1) ELSE reveal_upto,
                       all_correct([correct EXCEPT ![idx] = TRUE]))

\* _tick that reschedules itself without counting down
tick_body_NoDecrement(r, running, jobs) ==
  IF ~running
    THEN [r |-> r, running |-> running, jobs |-> jobs, expired |-> FALSE]
    ELSE IF r <= 0
      THEN [r |-> r, running |-> FALSE, jobs |-> jobs, expired |-> TRUE]
      ELSE [r |-> r, running |-> TRUE, jobs |-> jobs + 1, expired |-> FALSE]

\* body of HostWindow._tick, from the timer state (r, running, jobs); expired tells
\* whether the call showed "TIME!"
tick_body(r, running, jobs) ==
  IF ~running
    THEN [r |-> r, running |-> running, jobs |-> jobs, expired |-> FALSE]
    ELSE IF r - 1 <= 0
      THEN [r |-> r - 1, running |-> FALSE, jobs |-> jobs, expired |-> TRUE]
      ELSE [r |-> r - 1, running |-> TRUE, jobs |-> jobs + 1, expired |-> FALSE]

start_timer(secs) ==
  /\ timer_running \/ tick_jobs < MaxTickJobs
  /\ p_call' = <<"start_timer", secs>>
  /\ IF timer_running
       THEN UNCHANGED <<remaining_seconds, timer_running, tick_jobs, p_expired>>
       ELSE LET t == tick_body(Max(0, secs), TRUE, tick_jobs)
            IN /\ remaining_seconds' = t.r
               /\ timer_running' = t.running
               /\ tick_jobs' = t.jobs
               /\ p_expired' = (IF t.expired THEN 1 ELSE 0)
  /\ UNCHANGED <<prompts, correct, reveal_upto, entry_vars, finale_count, stale_jobs>>

stop_timer ==
  /\ timer_running' = FALSE
  /\ stale_jobs' = tick_jobs
  /\ p_call' = <<"stop_timer", 0>>
  /\ UNCHANGED <<prompts, correct, remaining_seconds, reveal_upto, entry_vars,
                 tick_jobs, finale_count, p_expired>>

reset_timer(secs) ==
  /\ timer_running' = FALSE
  /\ stale_jobs' = tick_jobs
  /\ remaining_seconds' = Max(0, secs)
  /\ p_call' = <<"reset_timer", secs>>
  /\ UNCHANGED <<prompts, correct, reveal_upto, entry_vars, tick_jobs, finale_count,
                 p_expired>>

\* the oldest scheduled _tick callback fires (all delays are 1000 ms, so callbacks
\* fire in the order they were scheduled: those from before the last stop first);
\* p_call records whether the callback was scheduled before the last stop_timer
_tick ==
  /\ tick_jobs > 0
  /\ LET t == tick_body(remaining_seconds, timer_running, tick_jobs - 1)
     IN /\ remaining_seconds' = t.r
        /\ timer_running' = t.running
        /\ tick_jobs' = t.jobs
        /\ p_expired' = p_expired + (IF t.expired THEN 1 ELSE 0)
  /\ stale_jobs' = (IF stale_jobs > 0 THEN stale_jobs - 1 ELSE 0)
  /\ p_call' = <<"_tick", IF stale_jobs > 0 THEN 1 ELSE 0>>
  /\ UNCHANGED <<prompts, correct, reveal_upto, entry_vars, finale_count>>

PNext ==
  \/ \E e \in EntryChoices : type_entries(e)
  \/ send_to_display
  \/ clear_entries
  \/ unmark_all
  \/ \E idx \in MarkArgs : mark_correct(idx)
  \/ \E secs \in SecondsChoices : start_timer(secs)
  \/ stop_timer
  \/ \E secs \in SecondsChoices : reset_timer(secs)
  \/ _tick

\* ------------------------------------------------------------------------
\* main.py: strings
\* A string is a sequence of one-character strings.  Lists are Python lists:
\* At(s, i) is s[i] with Python's 0-based index.
\* ------------------------------------------------------------------------
At(s, i) == s[i + 1]

Whitespace == {" "}

\* str.upper() on one character
UpperChar(c) ==
  CASE c = "a" -> "A" [] c = "b" -> "B" [] c = "c" -> "C" [] c = "e" -> "E"
    [] c = "g" -> "G" [] c = "n" -> "N" [] c = "o" -> "O" [] c = "s" -> "S"
    [] c = "t" -> "T" [] c = "u" -> "U" [] OTHER -> c

upper(s) == [i \in 1..Len(s) |-> UpperChar(s[i])]

RECURSIVE lstrip(_)
lstrip(s) == IF s # <<>> /\ Head(s) \in Whitespace THEN lstrip(Tail(s)) ELSE s

RECURSIVE rstrip(_)
rstrip(s) ==
  IF s # <<>> /\ s[Len(s)] \in Whitespace THEN rstrip(SubSeq(s, 1, Len(s) - 1)) ELSE s

strip(s) == rstrip(lstrip(s))

\* [f(x) for x in s if keep(x)] building blocks
RECURSIVE NonBlankStripped(_)
NonBlankStripped(lines) ==
  IF lines = <<>> THEN <<>>
  ELSE IF strip(Head(lines)) # <<>>
    THEN <<strip(Head(lines))>> \o NonBlankStripped(Tail(lines))
    ELSE NonBlankStripped(Tail(lines))

\* ------------------------------------------------------------------------
\* main.py: inputs
\* ------------------------------------------------------------------------
\* contents of the chain text box, as the lines text.splitlines() yields
TextGo == << <<"s","u","n"," ">>, <<" ","G","o">>, <<"a","t">> >>
TextBee == << <<"A">>, <<>>, <<"B","e","e">>, <<" ","c"," ">>, <<" "," ">>, <<"A","B">> >>
TextShort == << <<"a","b">>, <<" ">>, <<"b">> >>
ValidTexts == {TextGo, TextBee}
ChainTexts == ValidTexts \cup {TextShort}

\* contents of the guess entry
GuessChoices ==
  { <<" ","g","o">>, <<"G","O"," ">>, <<"b","E","e">>, <<"c">>, <<"g">>,
    <<"G"," ","O">>, <<"s","u","n">>, <<" ">>, <<>> }

\* the guesses submitted while the timer is modelled: one per interior word, one wrong
HostGuesses == { <<" ","g","o">>, <<"b","E","e">>, <<"c">>, <<"g">> }

\* values of the index spinbox variable (indices 0..3 exist in the longest chain)
IdxChoices == (-1)..4

None == 0            \* App._timer_job when no tick is scheduled

DefaultTimerSeconds == 60

\* contents of the timer entry: <<n>> when int() parses it as n, <<>> when int() raises
TimerEntryChoices == {<<>>} \cup {<<n>> : n \in (-1)..MaxSeconds}

\* ------------------------------------------------------------------------
\* main.py: class GameState, as operators on (words, revealed, withheld_last)
\* ------------------------------------------------------------------------
AllTrue(n) == [i \in 1..n |-> TRUE]
AllFalse(n) == [i \in 1..n |-> FALSE]
all(flags) == \A i \in 1..Len(flags) : flags[i]

\* __init__ that reveals only the first word
GameState_init_FirstOnly(ws) ==
  LET w2 == [i \in 1..Len(ws) |-> upper(strip(ws[i]))] IN
  [words |-> w2,
   revealed |-> [i \in 1..Len(w2) |->
                   IF i = 1 THEN AllTrue(Len(w2[i])) ELSE AllFalse(Len(w2[i]))],
   withheld_last |-> [i \in 1..Len(w2) |-> FALSE]]

\* GameState.__init__ for a list of at least 3 words (fewer raise ValueError)
GameState_init(ws) ==
  LET w2 == [i \in 1..Len(ws) |-> upper(strip(ws[i]))] IN
  [words |-> w2,
   revealed |-> [i \in 1..Len(w2) |->
                   IF (i - 1) \in {0, Len(w2) - 1} THEN AllTrue(Len(w2[i]))
                                                 ELSE AllFalse(Len(w2[i]))],
   withheld_last |-> [i \in 1..Len(w2) |-> FALSE]]

hidden_positions(flags) == {i \in 1..Len(flags) : ~flags[i]}

SetMin(S) == CHOOSE x \in S : \A y \in S : x <= y

\* reveal_next_letter that reveals the rightmost hidden letter
reveal_next_letter_op_Rightmost(ws, rev, wh, idx) ==
  IF idx \in {0, Len(ws) - 1}
    THEN [revealed |-> rev, withheld_last |-> wh, ret |-> <<FALSE, FALSE>>]
    ELSE LET hp == {i \in 1..Len(At(rev, idx)) : ~At(rev, idx)[i]} IN
      IF hp = {}
        THEN [revealed |-> rev, withheld_last |-> wh, ret |-> <<FALSE, FALSE>>]
        ELSE IF Cardinality(hp) = 1
          THEN [revealed |-> rev,
                withheld_last |-> [wh EXCEPT ![idx + 1] = TRUE],
                ret |-> <<FALSE, TRUE>>]
          ELSE [revealed |-> [rev EXCEPT ![idx + 1][CHOOSE x \in hp : \A y \in hp : x >= y] = TRUE],
                withheld_last |-> wh,
                ret |-> <<TRUE, FALSE>>]

\* reveal_next_letter that skips the leftmost hidden letter and reveals the next one
reveal_next_letter_op_SecondHidden(ws, rev, wh, idx) ==
  IF idx \in {0, Len(ws) - 1}
    THEN [revealed |-> rev, withheld_last |-> wh, ret |-> <<FALSE, FALSE>>]
    ELSE LET hp == {i \in 1..Len(At(rev, idx)) : ~At(rev, idx)[i]} IN
      IF hp = {}
        THEN [revealed |-> rev, withheld_last |-> wh, ret |-> <<FALSE, FALSE>>]
        ELSE IF Cardinality(hp) = 1
          THEN [revealed |-> rev,
                withheld_last |-> [wh EXCEPT ![idx + 1] = TRUE],
                ret |-> <<FALSE, TRUE>>]
          ELSE LET first == CHOOSE x \in hp : \A y \in hp : x <= y
                   rest == hp \ {first}
               IN [revealed |-> [rev EXCEPT ![idx + 1][CHOOSE x \in rest : \A y \in rest : x <= y] = TRUE],
                   withheld_last |-> wh,
                   ret |-> <<TRUE, FALSE>>]

\* reveal_next_letter without the last-letter rule
reveal_next_letter_op_RevealLast(ws, rev, wh, idx) ==
  IF idx \in {0, Len(ws) - 1}
    THEN [revealed |-> rev, withheld_last |-> wh, ret |-> <<FALSE, FALSE>>]
    ELSE LET hp == {i \in 1..Len(At(rev, idx)) : ~At(rev, idx)[i]} IN
      IF hp = {}
        THEN [revealed |-> rev, withheld_last |-> wh, ret |-> <<FALSE, FALSE>>]
        ELSE [revealed |-> [rev EXCEPT ![idx + 1][CHOOSE x \in hp : \A y \in hp : x <= y] = TRUE],
              withheld_last |-> wh,
              ret |-> <<TRUE, FALSE>>]

\* GameState.reveal_next_letter: the new flags, the new withheld_last and the
\* returned pair (revealed, withheld_last)
reveal_next_letter_op(ws, rev, wh, idx) ==
  IF idx \in {0, Len(ws) - 1}
    THEN [revealed |-> rev, withheld_last |-> wh, ret |-> <<FALSE, FALSE>>]
    ELSE LET hp == hidden_positions(At(rev, idx)) IN
      IF hp = {}
        THEN [revealed |-> rev, withheld_last |-> wh, ret |-> <<FALSE, FALSE>>]
        ELSE IF Cardinality(hp) = 1
          THEN [revealed |-> rev,
                withheld_last |-> [wh EXCEPT ![idx + 1] = TRUE],
                ret |-> <<FALSE, TRUE>>]
          ELSE [revealed |-> [rev EXCEPT ![idx + 1][SetMin(hp)] = TRUE],
                withheld_last |-> wh,
                ret |-> <<TRUE, FALSE>>]

is_word_complete(rev, idx) == all(At(rev, idx))

\* try_guess that leaves withheld_last set
try_guess_op_KeepWithheld(ws, rev, wh, idx, guess) ==
  IF upper(strip(guess)) = At(ws, idx)
    THEN [revealed |-> [rev EXCEPT ![idx + 1] = AllTrue(Len(At(ws, idx)))],
          withheld_last |-> wh,
          ret |-> <<TRUE>>]
    ELSE [revealed |-> rev, withheld_last |-> wh, ret |-> <<FALSE>>]

\* try_guess that compares without trimming the guess
try_guess_op_NoStrip(ws, rev, wh, idx, guess) ==
  IF upper(guess) = At(ws, idx)
    THEN [revealed |-> [rev EXCEPT ![idx + 1] = AllTrue(Len(At(ws, idx)))],
          withheld_last |-> [wh EXCEPT ![idx + 1] = FALSE],
          ret |-> <<TRUE>>]
    ELSE [revealed |-> rev, withheld_last |-> wh, ret |-> <<FALSE>>]

\* GameState.try_guess: the new flags, the new withheld_last and the returned bool
try_guess_op(ws, rev, wh, idx, guess) ==
  LET target == At(ws, idx) IN
  IF upper(strip(guess)) = target
    THEN [revealed |-> [rev EXCEPT ![idx + 1] = AllTrue(Len(target))],
          withheld_last |-> [wh EXCEPT ![idx + 1] = FALSE],
          ret |-> <<TRUE>>]
    ELSE [revealed |-> rev, withheld_last |-> wh, ret |-> <<FALSE>>]

\* GameState.word_mask
RECURSIVE shown_letters(_, _)
shown_letters(w, flags) ==
  IF w = <<>> \/ flags = <<>> THEN <<>>
  ELSE (IF Head(flags) THEN <<Head(w)>> ELSE <<>>) \o shown_letters(Tail(w), Tail(flags))

\* word_mask that spaces the letters out, as refresh_display does for the labels
word_mask_Spaced(ws, rev, wh, idx) ==
  [k \in 1..(2 * Len(At(ws, idx)) - 1) |->
     IF k % 2 = 1 THEN At(ws, idx)[(k + 1) \div 2] ELSE " "]

\* word_mask that shows an underscore for every hidden letter
word_mask_Placeholders(ws, rev, wh, idx) ==
  LET w == At(ws, idx)
      flags == At(rev, idx)
      sl == [k \in 1..Len(w) |-> IF flags[k] THEN w[k] ELSE "_"]
  IN IF idx \in {0, Len(ws) - 1} THEN w
     ELSE IF At(wh, idx) /\ ~all(flags) THEN sl \o <<" ", "?">> ELSE sl

word_mask(ws, rev, wh, idx) ==
  LET w == At(ws, idx)
      flags == At(rev, idx)
      sl == shown_letters(w, flags)
  IN IF idx \in {0, Len(ws) - 1} THEN w
     ELSE IF At(wh, idx) /\ ~all(flags)
       THEN (IF sl # <<>> THEN sl \o <<" ", "?">> ELSE <<"?">>)
       ELSE sl

\* ------------------------------------------------------------------------
\* main.py: class App
\* ------------------------------------------------------------------------
InteriorIdx(ws) == 1..(Len(ws) - 2)

\* the loop of App._is_puzzle_solved from index i on: False at the first incomplete
\* word, True when range(1, len(words) - 1) is exhausted
RECURSIVE solved_from(_, _, _)
solved_from(ws, rev, i) ==
  IF i >= Len(ws) - 1 THEN TRUE
  ELSE IF ~is_word_complete(rev, i) THEN FALSE
  ELSE solved_from(ws, rev, i + 1)

\* _is_puzzle_solved whose loop starts one word too late
_is_puzzle_solved_SkipFirst(ws, rev) == solved_from(ws, rev, 2)

_is_puzzle_solved(ws, rev) == solved_from(ws, rev, 1)

_topmost_unsolved_idx(ws, rev) ==
  LET U == {i \in InteriorIdx(ws) : ~is_word_complete(rev, i)}
  IN IF U = {} THEN -1 ELSE SetMin(U)

_bottommost_unsolved_idx(ws, rev) ==
  LET U == {i \in InteriorIdx(ws) : ~is_word_complete(rev, i)}
  IN IF U = {} THEN -1 ELSE CHOOSE x \in U : \A y \in U : x >= y

\* _safe_idx: the index, or -1 for the None it returns when out of bounds
_safe_idx(ws, v) == IF v < 0 \/ v >= Len(ws) THEN -1 ELSE v

TimerUnchanged ==
  UNCHANGED <<app_timer_running, timer_seconds, timer_job, after_jobs, c_stale, c_expired>>

\* root.after_cancel(job) on the scheduled callbacks; cancelling None is skipped and
\* cancelling a callback that has already fired does nothing
after_cancel(jobs, job) == IF job # None THEN jobs \ {job} ELSE jobs

\* _on_timer_pause that clears the flag and the handle without cancelling the callback
PauseEffect_NoCancel ==
  /\ app_timer_running' = FALSE
  /\ timer_job' = None
  /\ c_stale' = after_jobs
  /\ UNCHANGED <<after_jobs, timer_seconds, c_expired>>

\* App._on_timer_pause, as the effect on the timer variables
PauseEffect ==
  /\ app_timer_running' = FALSE
  /\ after_jobs' = after_cancel(after_jobs, timer_job)
  /\ timer_job' = None
  /\ c_stale' = after_cancel(after_jobs, timer_job)
  /\ UNCHANGED <<timer_seconds, c_expired>>

\* _maybe_puzzle_solved that leaves the timer alone
_maybe_puzzle_solved_NoPause(rev2) == TimerUnchanged

\* App._maybe_puzzle_solved, run on the flags the handler has just written
_maybe_puzzle_solved(rev2) ==
  IF _is_puzzle_solved(words, rev2) /\ app_timer_running
    THEN PauseEffect
    ELSE TimerUnchanged

GameUnchanged == UNCHANGED <<words, revealed, withheld_last>>

NoCall(op) == <<op, -1, <<>>, <<>>, FALSE>>

\* State after App.__init__ and a load: the constructor calls load_chain_from_text
\* on the seven-word SAMPLE_CHAIN, and Load Chain calls it on whatever the host
\* typed.  The model starts from the load of one of the shorter ValidTexts, which
\* one Load Chain reaches from the constructed state without touching the timer.
CInit ==
  /\ \E text \in ValidTexts :
       LET g == GameState_init(NonBlankStripped(text)) IN
       /\ words = g.words
       /\ revealed = g.revealed
       /\ withheld_last = g.withheld_last
  /\ app_timer_running = FALSE
  /\ timer_seconds = DefaultTimerSeconds
  /\ timer_job = None
  /\ after_jobs = {}
  /\ c_stale = {}
  /\ c_expired = 0
  /\ c_call = NoCall("__init__")

\* Load Chain with the line count checked against 2 instead of 3
_on_load_chain_TwoLines(text) ==
  LET lines == NonBlankStripped(text) IN
  /\ IF Len(lines) < 2
       THEN /\ GameUnchanged
            /\ c_call' = <<"_on_load_chain", -1, text, <<FALSE>>, FALSE>>
       ELSE /\ words' = GameState_init(lines).words
            /\ revealed' = GameState_init(lines).revealed
            /\ withheld_last' = GameState_init(lines).withheld_last
            /\ c_call' = <<"_on_load_chain", -1, text, <<TRUE>>, FALSE>>
  /\ TimerUnchanged

\* Load Chain: load_chain_from_text raises on fewer than 3 non-blank lines and
\* _on_load_chain shows the error, keeping the old game; the call record holds the
\* text and whether the load succeeded
_on_load_chain(text) ==
  LET lines == NonBlankStripped(text) IN
  /\ IF Len(lines) < 3
       THEN /\ GameUnchanged
            /\ c_call' = <<"_on_load_chain", -1, text, <<FALSE>>, FALSE>>
       ELSE LET g == GameState_init(lines) IN
            /\ words' = g.words
            /\ revealed' = g.revealed
            /\ withheld_last' = g.withheld_last
            /\ c_call' = <<"_on_load_chain", -1, text, <<TRUE>>, FALSE>>
  /\ TimerUnchanged

\* Reset Reveals that rebuilds the flags but keeps the withheld marks
_on_reset_reveals_KeepWithheld ==
  /\ words' = GameState_init(words).words
  /\ revealed' = GameState_init(words).revealed
  /\ withheld_last' = withheld_last
  /\ c_call' = NoCall("_on_reset_reveals")
  /\ TimerUnchanged

_on_reset_reveals ==
  LET g == GameState_init(words) IN
  /\ words' = g.words
  /\ revealed' = g.revealed
  /\ withheld_last' = g.withheld_last
  /\ c_call' = NoCall("_on_reset_reveals")
  /\ TimerUnchanged

\* the three letter handlers share their body after choosing the index
GiveLetter(op, idx) ==
  IF idx = -1
    THEN /\ GameUnchanged /\ TimerUnchanged
         /\ c_call' = NoCall(op)
    ELSE LET r == reveal_next_letter_op(words, revealed, withheld_last, idx) IN
         /\ words' = words
         /\ revealed' = r.revealed
         /\ withheld_last' = r.withheld_last
         /\ c_call' = <<op, idx, <<>>, r.ret, At(withheld_last, idx)>>
         /\ IF r.ret[1] \/ r.ret[2]
              THEN _maybe_puzzle_solved(r.revealed)
              ELSE TimerUnchanged

_on_give_letter(v) == GiveLetter("_on_give_letter", _safe_idx(words, v))

_on_give_letter_above ==
  GiveLetter("_on_give_letter_above", _topmost_unsolved_idx(words, revealed))

_on_give_letter_below ==
  GiveLetter("_on_give_letter_below", _bottommost_unsolved_idx(words, revealed))

\* whole-word reveal that leaves the withheld mark set
RevealWord_KeepWithheld(op, idx) ==
  IF idx = -1
    THEN /\ GameUnchanged /\ TimerUnchanged
         /\ c_call' = NoCall(op)
    ELSE /\ words' = words
         /\ revealed' = [revealed EXCEPT ![idx + 1] = AllTrue(Len(At(words, idx)))]
         /\ withheld_last' = withheld_last
         /\ c_call' = <<op, idx, <<>>, <<>>, At(withheld_last, idx)>>
         /\ _maybe_puzzle_solved([revealed EXCEPT ![idx + 1] = AllTrue(Len(At(words, idx)))])

\* the two whole-word handlers share their body after choosing the index
RevealWord(op, idx) ==
  IF idx = -1
    THEN /\ GameUnchanged /\ TimerUnchanged
         /\ c_call' = NoCall(op)
    ELSE LET rev2 == [revealed EXCEPT ![idx + 1] = AllTrue(Len(At(words, idx)))] IN
         /\ words' = words
         /\ revealed' = rev2
         /\ withheld_last' = [withheld_last EXCEPT ![idx + 1] = FALSE]
         /\ c_call' = <<op, idx, <<>>, <<>>, At(withheld_last, idx)>>
         /\ _maybe_puzzle_solved(rev2)

_on_reveal_word_above ==
  RevealWord("_on_reveal_word_above", _topmost_unsolved_idx(words, revealed))

_on_reveal_word_below ==
  RevealWord("_on_reveal_word_below", _bottommost_unsolved_idx(words, revealed))

_on_submit_guess(v, entry) ==
  LET idx == _safe_idx(words, v)
      guess == strip(entry)
  IN IF idx = -1 \/ guess = <<>> \/ idx \in {0, Len(words) - 1}
       THEN /\ GameUnchanged /\ TimerUnchanged
            /\ c_call' = NoCall("_on_submit_guess")
       ELSE LET r == try_guess_op(words, revealed, withheld_last, idx, guess) IN
            /\ words' = words
            /\ revealed' = r.revealed
            /\ withheld_last' = r.withheld_last
            /\ c_call' = <<"_on_submit_guess", idx, guess, r.ret, At(withheld_last, idx)>>
            /\ IF r.ret[1] THEN _maybe_puzzle_solved(r.revealed) ELSE TimerUnchanged

\* direct calls of the GameState methods, on any existing index
reveal_next_letter(idx) ==
  LET r == reveal_next_letter_op(words, revealed, withheld_last, idx) IN
  /\ idx \in 0..(Len(words) - 1)
  /\ words' = words
  /\ revealed' = r.revealed
  /\ withheld_last' = r.withheld_last
  /\ c_call' = <<"reveal_next_letter", idx, <<>>, r.ret, At(withheld_last, idx)>>
  /\ TimerUnchanged

try_guess(idx, guess) ==
  LET r == try_guess_op(words, revealed, withheld_last, idx, guess) IN
  /\ idx \in 0..(Len(words) - 1)
  /\ words' = words
  /\ revealed' = r.revealed
  /\ withheld_last' = r.withheld_last
  /\ c_call' = <<"try_guess", idx, guess, r.ret, At(withheld_last, idx)>>
  /\ TimerUnchanged

\* ------------------------------------------------------------------------
\* main.py: the timer of class App
\* ------------------------------------------------------------------------
\* root.after(1000, ...): an id that names no scheduled callback and differs from
\* the id the app still holds
after_id(jobs, held) == SetMin({j \in 1..(Cardinality(jobs) + 2) : j \notin jobs /\ j # held})

_on_timer_start(entry) ==
  LET secs == IF entry # <<>> /\ entry[1] > 0 THEN entry[1] ELSE timer_seconds IN
  /\ app_timer_running \/ Cardinality(after_jobs) < MaxAfterJobs
  /\ timer_seconds' = secs
  /\ IF ~app_timer_running
       THEN LET id == after_id(after_jobs, timer_job) IN
            /\ app_timer_running' = TRUE
            /\ timer_job' = id
            /\ after_jobs' = after_jobs \cup {id}
            /\ c_expired' = 0
            /\ UNCHANGED c_stale
       ELSE UNCHANGED <<app_timer_running, timer_job, after_jobs, c_stale, c_expired>>
  /\ c_call' = <<"_on_timer_start", -1, entry, <<>>, FALSE>>
  /\ GameUnchanged

_on_timer_pause ==
  /\ PauseEffect
  /\ c_call' = NoCall("_on_timer_pause")
  /\ GameUnchanged

_on_timer_reset(entry) ==
  /\ timer_seconds' = (IF entry # <<>> THEN entry[1] ELSE DefaultTimerSeconds)
  /\ app_timer_running' = FALSE
  /\ after_jobs' = after_cancel(after_jobs, timer_job)
  /\ timer_job' = None
  /\ c_stale' = after_cancel(after_jobs, timer_job)
  /\ UNCHANGED c_expired
  /\ c_call' = <<"_on_timer_reset", -1, entry, <<>>, FALSE>>
  /\ GameUnchanged

\* _update_timer_tick that keeps ticking at zero instead of pausing
_update_timer_tick_NoStop(job) ==
  /\ job \in after_jobs
  /\ IF ~app_timer_running
       THEN /\ after_jobs' = after_jobs \ {job}
            /\ c_stale' = c_stale \ {job}
            /\ c_call' = <<"_update_timer_tick", -1, <<>>, <<job \in c_stale, FALSE>>, FALSE>>
            /\ UNCHANGED <<app_timer_running, timer_seconds, timer_job, c_expired>>
       ELSE /\ timer_seconds' = Max(0, timer_seconds - 1)
            /\ timer_job' = job
            /\ after_jobs' = after_jobs
            /\ c_stale' = c_stale \ {job}
            /\ c_expired' = c_expired + (IF timer_seconds - 1 <= 0 /\ c_expired < 2 THEN 1 ELSE 0)
            /\ UNCHANGED app_timer_running
            /\ c_call' = <<"_update_timer_tick", -1, <<>>,
                           <<job \in c_stale, timer_seconds - 1 <= 0>>, FALSE>>
  /\ GameUnchanged

\* the scheduled callback job fires and runs App._update_timer_tick; the call record
\* holds <<job was scheduled before the last pause or reset, expiry was signalled>>
_update_timer_tick(job) ==
  LET pending == after_jobs \ {job}
      secs == Max(0, timer_seconds - 1)
  IN
  /\ job \in after_jobs
  /\ IF ~app_timer_running
       THEN /\ after_jobs' = pending
            /\ c_stale' = c_stale \ {job}
            /\ c_call' = <<"_update_timer_tick", -1, <<>>, <<job \in c_stale, FALSE>>, FALSE>>
            /\ UNCHANGED <<app_timer_running, timer_seconds, timer_job, c_expired>>
       ELSE /\ timer_seconds' = secs
            /\ IF secs = 0
                 THEN \* time's up: _on_timer_pause, then the "wrong" sound
                      /\ app_timer_running' = FALSE
                      /\ after_jobs' = after_cancel(pending, timer_job)
                      /\ timer_job' = None
                      /\ c_stale' = after_cancel(pending, timer_job)
                      /\ c_expired' = c_expired + 1
                 ELSE LET id == after_id(pending, timer_job) IN
                      /\ timer_job' = id
                      /\ after_jobs' = pending \cup {id}
                      /\ c_stale' = c_stale \ {job}
                      /\ UNCHANGED <<app_timer_running, c_expired>>
            /\ c_call' = <<"_update_timer_tick", -1, <<>>, <<job \in c_stale, secs = 0>>, FALSE>>
  /\ GameUnchanged

CTimerNext ==
  \/ \E entry \in TimerEntryChoices : _on_timer_start(entry)
  \/ _on_timer_pause
  \/ \E entry \in TimerEntryChoices : _on_timer_reset(entry)
  \/ \E job \in after_jobs : _update_timer_tick(job)

CGameNext ==
  \/ \E text \in ChainTexts : _on_load_chain(text)
  \/ _on_reset_reveals
  \/ \E v \in IdxChoices : _on_give_letter(v)
  \/ _on_give_letter_above
  \/ _on_give_letter_below
  \/ _on_reveal_word_above
  \/ _on_reveal_word_below
  \/ \E v \in IdxChoices, entry \in GuessChoices : _on_submit_guess(v, entry)
  \/ \E idx \in IdxChoices : reveal_next_letter(idx)
  \/ \E idx \in IdxChoices, guess \in GuessChoices : try_guess(idx, guess)

Init == PInit /\ CInit

SpecPyramid == Init /\ [][PNext /\ UNCHANGED cvars]_vars

SpecChain == Init /\ [][CGameNext /\ UNCHANGED pvars]_vars

\* the buttons of the Chain Reaction host window: game handlers, with the guesses
\* the host submits drawn from HostGuesses, and the timer
CHostNext ==
  \/ \E text \in ChainTexts : _on_load_chain(text)
  \/ _on_reset_reveals
  \/ \E v \in IdxChoices : _on_give_letter(v)
  \/ _on_give_letter_above
  \/ _on_give_letter_below
  \/ _on_reveal_word_above
  \/ _on_reveal_word_below
  \/ \E v \in IdxChoices, entry \in HostGuesses : _on_submit_guess(v, entry)

CNext == CHostNext \/ CTimerNext

\* Either program runs: the two are separate processes without shared state, so a
\* behaviour is a run of the Pyramid host or a run of the Chain Reaction app.
Next ==
  \/ /\ c_call[1] = "__init__"
     /\ PNext
     /\ UNCHANGED cvars
  \/ /\ p_call[1] = "init"
     /\ CNext
     /\ UNCHANGED pvars

Spec == Init /\ [][Next]_vars

\* a scheduled callback of the running program fires: Tk's event loop runs every
\* callback registered with after() once its delay has passed
PTickFires == c_call[1] = "__init__" /\ _tick /\ UNCHANGED cvars
CTickFires ==
  /\ p_call[1] = "init"
  /\ \E job \in after_jobs : _update_timer_tick(job)
  /\ UNCHANGED pvars

SpecLive == Spec /\ WF_vars(PTickFires) /\ WF_vars(CTickFires)

\* ------------------------------------------------------------------------
\* Properties of the Pyramid gate engine (checked under SpecPyramid)
\* ------------------------------------------------------------------------

\* C1: mark_correct(i) with i different from current_index() (i = current_index()+1,
\* i = -1 and every i in the Won state included) leaves the correctness flags, the
\* prompts, the reveal cursor and the timer fields unchanged.
C1_MarkOtherIsNoOp ==
  [][\A i \in MarkArgs :
       (p_call' = <<"mark_correct", i>> /\ i # current_index(correct))
         => UNCHANGED <<correct, prompts, reveal_upto, remaining_seconds,
                        timer_running, tick_jobs>>]_vars

\* mark_correct was just called on the prompt after the active one, mid-round, with
\* the timer running, and the active prompt is still unsolved
C1_Witness ==
  /\ current_index(correct) = 2
  /\ p_call = <<"mark_correct", 3>>
  /\ ~correct[3]
  /\ timer_running

\* C5: a flag goes from false to true only for the lowest-indexed unsolved prompt,
\* one flag per step, and the solved prompts are always exactly the indices below
\* current_index() (all six when it is -1).
C5_SolvedIsPrefix ==
  /\ [](\A i \in PromptIdx :
          correct[i] <=> (current_index(correct) = -1 \/ i < current_index(correct)))
  /\ [][\A i \in PromptIdx :
          (~correct[i] /\ correct'[i])
            => /\ i = current_index(correct)
               /\ \A j \in PromptIdx \ {i} : correct'[j] = correct[j]]_vars

C5_Witness ==
  /\ p_call = <<"mark_correct", 2>>
  /\ correct[0] /\ correct[1] /\ correct[2]
  /\ current_index(correct) = 3

\* C6: reveal_upto stays within 0..5, is at least the index of every solved prompt
\* and at least the index of the first unsolved prompt.
C6_CursorCoversSolvedAndCurrent ==
  /\ reveal_upto \in 0..5
  /\ \A i \in PromptIdx : correct[i] => reveal_upto >= i
  /\ current_index(correct) # -1 => reveal_upto >= current_index(correct)

C6_Witness ==
  /\ p_call = <<"mark_correct", 3>>
  /\ correct[3]
  /\ current_index(correct) = 4
  /\ reveal_upto = 4

\* C8: between two resets the finale is triggered at most once; it is triggered by
\* exactly the step that marks the sixth prompt correct, and by no later mark_correct
\* or send_to_display.
C8_FinaleOnce ==
  /\ [](finale_count <= 1)
  /\ [](finale_count = 1 <=> all_correct(correct))
  /\ [][(finale_count' > finale_count)
          <=> (~all_correct(correct) /\ all_correct(correct')
                 /\ p_call' = <<"mark_correct", 5>>)]_vars

\* the round is won and mark_correct has been called again in the Won state
C8_Witness ==
  /\ all_correct(correct)
  /\ finale_count = 1
  /\ p_call = <<"mark_correct", 0>>

\* C9: each call mark_correct(k) on the active prompt k moves reveal_upto to k+1 for
\* k < 5 and leaves it at 5 for k = 5; all_correct() is false before every such call
\* and true after it exactly when k = 5.  From the initial state (reveal_upto = 0,
\* nothing solved) the calls 0..5 in order therefore step the cursor 1,2,3,4,5,5.
C9_InOrderSolve ==
  [][\A k \in PromptIdx :
       (p_call' = <<"mark_correct", k>> /\ k = current_index(correct))
         => /\ reveal_upto = k
            /\ reveal_upto' = (IF k < 5 THEN k + 1 ELSE 5)
            /\ ~all_correct(correct)
            /\ all_correct(correct') <=> (k = 5)]_vars

C9_Witness ==
  /\ p_call = <<"mark_correct", 5>>
  /\ all_correct(correct)
  /\ reveal_upto = 5

\* C10: unmark_all yields six false flags, reveal_upto = 0 and current_index() = 0,
\* keeps the prompt texts, and a second unmark_all right after changes nothing.
C10_ResetAll ==
  [][/\ (p_call' = <<"unmark_all", 0>>)
          => /\ \A i \in PromptIdx : ~correct'[i]
             /\ reveal_upto' = 0
             /\ current_index(correct') = 0
             /\ prompts' = prompts
     /\ (p_call = <<"unmark_all", 0>> /\ p_call' = <<"unmark_all", 0>>)
          => UNCHANGED pvars]_vars

C10_Witness ==
  /\ p_call = <<"unmark_all", 0>>
  /\ prompts = SampleEntries
  /\ reveal_upto = 0
  /\ timer_running

\* ------------------------------------------------------------------------
\* Properties of the Chain reveal engine (checked under SpecChain)
\* ------------------------------------------------------------------------
RevealOps == {"reveal_next_letter", "_on_give_letter",
              "_on_give_letter_above", "_on_give_letter_below"}
TryOps == {"try_guess", "_on_submit_guess"}

NumHidden(rev, idx) == Cardinality({k \in 1..Len(At(rev, idx)) : ~At(rev, idx)[k]})

\* C2: every reveal_next_letter call on an interior word with exactly one hidden
\* letter keeps that letter hidden, sets withheld_last for the word and returns
\* (False, True), also when the call is repeated on the already withheld word.
C2_LastLetterWithheld ==
  [][\A op \in RevealOps : \A i \in InteriorIdx(words) :
       (c_call'[1] = op /\ c_call'[2] = i /\ NumHidden(revealed, i) = 1)
         => /\ revealed' = revealed
            /\ At(withheld_last', i)
            /\ c_call'[4] = <<FALSE, TRUE>>]_vars

\* reveal_next_letter was called on the three-letter interior word when it was
\* already withheld, and its last letter is still hidden
C2_Witness ==
  /\ c_call[1] \in RevealOps
  /\ c_call[2] = 1
  /\ c_call[5]
  /\ c_call[4] = <<FALSE, TRUE>>
  /\ At(revealed, 1) = <<TRUE, TRUE, FALSE>>
  /\ At(withheld_last, 1)

\* C3: the first and the last word always have every reveal flag true (one flag per
\* letter) and withheld_last false.
C3_EndpointsRevealed ==
  \A i \in {0, Len(words) - 1} :
    /\ Len(At(revealed, i)) = Len(At(words, i))
    /\ \A k \in 1..Len(At(revealed, i)) : At(revealed, i)[k]
    /\ ~At(withheld_last, i)

\* a matching try_guess has just run on the first word of the chain
C3_Witness ==
  /\ c_call[1] = "try_guess"
  /\ c_call[2] = 0
  /\ c_call[4] = <<TRUE>>

\* C4: for every interior word, withheld_last implies exactly one hidden letter.
C4_WithheldMeansOneHidden ==
  \A i \in InteriorIdx(words) : At(withheld_last, i) => NumHidden(revealed, i) = 1

\* a word that was withheld has just been solved by a guess while another interior
\* word is withheld
C4_Witness ==
  /\ c_call[1] \in TryOps
  /\ c_call[4] = <<TRUE>>
  /\ c_call[5]
  /\ \E i \in InteriorIdx(words) : At(withheld_last, i)

\* "equal after trimming whitespace and ignoring case", stated on the characters
CasePairs ==
  { <<"a","A">>, <<"b","B">>, <<"c","C">>, <<"e","E">>, <<"g","G">>,
    <<"n","N">>, <<"o","O">>, <<"s","S">>, <<"t","T">>, <<"u","U">> }
SameLetter(x, y) == x = y \/ <<x, y>> \in CasePairs \/ <<y, x>> \in CasePairs
MatchesTrimmedIgnoringCase(guess, target) ==
  \E a \in 0..Len(guess) : \E b \in 0..(Len(guess) - a) :
    /\ \A k \in 1..a : guess[k] \in Whitespace
    /\ \A k \in (Len(guess) - b + 1)..Len(guess) : guess[k] \in Whitespace
    /\ Len(guess) - a - b = Len(target)
    /\ \A k \in 1..Len(target) : SameLetter(guess[a + k], target[k])

\* C7: try_guess returns True exactly when the trimmed guess equals the target word
\* ignoring case; on True the word is fully revealed and its withheld_last cleared
\* (also when it was set), on False no reveal flag and no withheld_last changes.
C7_TryGuess ==
  [][\A op \in TryOps : \A i \in 0..(Len(words) - 1) :
       (c_call'[1] = op /\ c_call'[2] = i)
         => LET m == MatchesTrimmedIgnoringCase(c_call'[3], At(words, i)) IN
            /\ c_call'[4] = <<m>>
            /\ words' = words
            /\ m => /\ At(revealed', i) = [k \in 1..Len(At(words, i)) |-> TRUE]
                    /\ ~At(withheld_last', i)
            /\ ~m => /\ revealed' = revealed
                     /\ withheld_last' = withheld_last]_vars

\* a guess with surrounding blanks and mixed case has just solved a withheld word
C7_Witness ==
  /\ c_call[1] = "try_guess"
  /\ c_call[3] = <<" ", "g", "o">>
  /\ c_call[4] = <<TRUE>>
  /\ c_call[5]
  /\ At(revealed, c_call[2]) = <<TRUE, TRUE>>
  /\ ~At(withheld_last, c_call[2])

\* C11: send_to_display and clear_entries replace the prompt texts by the entries and
\* leave the six correctness flags, the value of reveal_upto and the timer as they were.
C11_SetPromptsTextOnly ==
  [][p_call'[1] \in {"send_to_display", "clear_entries"}
       => /\ prompts' = entry_vars'
          /\ correct' = correct
          /\ reveal_upto' = reveal_upto
          /\ UNCHANGED <<remaining_seconds, timer_running, tick_jobs>>]_vars

\* the prompts were re-sent mid-round, after three prompts had been solved
C11_Witness ==
  /\ p_call = <<"send_to_display", 0>>
  /\ prompts = SampleEntries
  /\ current_index(correct) = 3
  /\ reveal_upto = 3

\* ------------------------------------------------------------------------
\* Properties of the two timers (checked under Spec)
\* ------------------------------------------------------------------------

\* C12: stopping (pausing) a timer twice in a row changes nothing the second time,
\* and a tick callback that was scheduled before a stop never changes the remaining
\* seconds when it fires later, whatever the host did in between (a new start
\* included), in both games.
C12_StopCancelsScheduledTicks ==
  [][/\ (p_call = <<"stop_timer", 0>> /\ p_call' = <<"stop_timer", 0>>) => UNCHANGED pvars
     /\ (c_call[1] = "_on_timer_pause" /\ c_call'[1] = "_on_timer_pause") => UNCHANGED cvars
     /\ p_call' = <<"_tick", 1>> => remaining_seconds' = remaining_seconds
     /\ (c_call'[1] = "_update_timer_tick" /\ c_call'[4][1])
          => timer_seconds' = timer_seconds]_vars

\* what both games agree on for C13: a tick of a stopped timer changes nothing, a
\* tick of a running timer signals expiry and stops the timer exactly when it leaves
\* the value at zero or below, and expiry is signalled at most once per countdown
\* and never while the timer keeps running
TickStopsAtZero ==
  /\ [](p_expired <= 1 /\ c_expired <= 1)
  /\ [](timer_running => p_expired = 0)
  /\ [](app_timer_running => c_expired = 0)
  /\ [][/\ (p_call'[1] = "_tick" /\ ~timer_running)
             => UNCHANGED <<remaining_seconds, timer_running, p_expired>>
        /\ (p_call'[1] = "_tick" /\ timer_running)
             => IF remaining_seconds' <= 0
                  THEN ~timer_running' /\ p_expired' = p_expired + 1
                  ELSE timer_running' /\ p_expired' = p_expired
        /\ p_expired' > p_expired => p_call'[1] \in {"_tick", "start_timer"}
        /\ (c_call'[1] = "_update_timer_tick" /\ ~app_timer_running)
             => UNCHANGED <<timer_seconds, app_timer_running, c_expired>>
        /\ (c_call'[1] = "_update_timer_tick" /\ app_timer_running)
             => IF timer_seconds' <= 0
                  THEN ~app_timer_running' /\ c_expired' = c_expired + 1
                  ELSE app_timer_running' /\ c_expired' = c_expired
        /\ c_expired' > c_expired => c_call'[1] = "_update_timer_tick"]_vars

\* C13 as stated: in both games every tick of a running timer decrements the
\* remaining seconds by one, the tick reaching zero stops the timer and signals
\* expiry, expiry is signalled once per started countdown, and ticks of the stopped
\* timer neither decrement nor signal.
C13_EveryTickDecrements ==
  /\ TickStopsAtZero
  /\ [][/\ (p_call'[1] = "_tick" /\ timer_running)
             => remaining_seconds' = remaining_seconds - 1
        /\ (c_call'[1] = "_update_timer_tick" /\ app_timer_running)
             => timer_seconds' = timer_seconds - 1]_vars

\* C13 (amended): every tick of a running timer whose remaining value is positive
\* decrements it by one; the tick that leaves the value at zero or below stops the
\* timer and signals expiry; expiry is signalled once per started countdown, and
\* ticks of the stopped timer neither decrement nor signal.
C13_PositiveTickDecrements ==
  /\ TickStopsAtZero
  /\ [][/\ (p_call'[1] = "_tick" /\ timer_running /\ remaining_seconds > 0)
             => remaining_seconds' = remaining_seconds - 1
        /\ (c_call'[1] = "_update_timer_tick" /\ app_timer_running /\ timer_seconds > 0)
             => timer_seconds' = timer_seconds - 1]_vars

\* the Chain timer has just ticked from 1 to 0, stopped and signalled expiry
C13_Witness ==
  /\ c_call[1] = "_update_timer_tick"
  /\ c_call[4] = <<FALSE, TRUE>>
  /\ timer_seconds = 0
  /\ ~app_timer_running
  /\ after_jobs = {}
  /\ c_expired = 1

\* ------------------------------------------------------------------------
\* More properties of the Chain reveal engine (checked under SpecChain)
\* ------------------------------------------------------------------------

\* C14: reveal_next_letter on an interior word with two or more hidden letters turns
\* exactly the leftmost hidden flag true and returns (True, False), leaving every
\* other flag and every withheld_last as it was; on an endpoint or a fully revealed
\* word it returns (False, False) and changes nothing.
C14_RevealLeftmost ==
  [][\A op \in RevealOps : \A i \in 0..(Len(words) - 1) :
       (c_call'[1] = op /\ c_call'[2] = i)
         => /\ words' = words
            /\ (i \in InteriorIdx(words) /\ NumHidden(revealed, i) >= 2)
                 => /\ c_call'[4] = <<TRUE, FALSE>>
                    /\ withheld_last' = withheld_last
                    /\ \E p \in 1..Len(At(revealed, i)) :
                         /\ ~At(revealed, i)[p]
                         /\ \A q \in 1..(p - 1) : At(revealed, i)[q]
                         /\ \A j \in 1..Len(revealed) : \A k \in 1..Len(revealed[j]) :
                              revealed'[j][k] = (revealed[j][k] \/ (j = i + 1 /\ k = p))
                    /\ \A j \in 1..Len(revealed) : Len(revealed'[j]) = Len(revealed[j])
            /\ (i \notin InteriorIdx(words) \/ NumHidden(revealed, i) = 0)
                 => /\ c_call'[4] = <<FALSE, FALSE>>
                    /\ revealed' = revealed
                    /\ withheld_last' = withheld_last]_vars

\* a letter was just given to the three-letter interior word, which now shows two
C14_Witness ==
  /\ c_call[1] \in RevealOps
  /\ c_call[2] = 1
  /\ c_call[4] = <<TRUE, FALSE>>
  /\ At(revealed, 1) = <<TRUE, TRUE, FALSE>>
  /\ ~At(withheld_last, 1)

\* the lines of a text that hold a character other than whitespace
NonBlankLines(text) == {k \in 1..Len(text) : \E j \in 1..Len(text[k]) : text[k][j] \notin Whitespace}

\* C15: Load Chain fails exactly on a text with fewer than 3 non-blank lines, and a
\* failed load leaves the loaded words, the reveal flags and the withheld_last flags
\* as they were, so a chain of at least 3 words stays loaded.
C15_FailedLoadKeepsGame ==
  /\ [](Len(words) >= 3 /\ Len(revealed) = Len(words) /\ Len(withheld_last) = Len(words))
  /\ [][c_call'[1] = "_on_load_chain"
          => /\ c_call'[4] = <<Cardinality(NonBlankLines(c_call'[3])) >= 3>>
             /\ c_call'[4] = <<FALSE>> => UNCHANGED <<words, revealed, withheld_last>>]_vars

\* a load has just failed while the three-letter word of the loaded chain is withheld
C15_Witness ==
  /\ c_call[1] = "_on_load_chain"
  /\ c_call[3] = TextShort
  /\ c_call[4] = <<FALSE>>
  /\ Len(words) = 4
  /\ At(revealed, 1) = <<TRUE, TRUE, FALSE>>
  /\ At(withheld_last, 1)

\* the fresh reveal state of a chain: one flag per letter, true on the first and the
\* last word and false on the others, and no withheld mark
Fresh(ws, rev, wh) ==
  /\ Len(rev) = Len(ws)
  /\ Len(wh) = Len(ws)
  /\ \A j \in 1..Len(ws) :
       /\ Len(rev[j]) = Len(ws[j])
       /\ \A k \in 1..Len(ws[j]) : rev[j][k] = (j = 1 \/ j = Len(ws))
       /\ ~wh[j]

\* the k-th non-blank line of a text
NthNonBlank(text, k) ==
  text[CHOOSE n \in NonBlankLines(text) : Cardinality({m \in NonBlankLines(text) : m < n}) = k - 1]

IsUpperTrimmed(w) ==
  /\ w # <<>> => (w[1] \notin Whitespace /\ w[Len(w)] \notin Whitespace)
  /\ \A k \in 1..Len(w) : \A pr \in CasePairs : w[k] # pr[1]

\* C16: a successful load stores the non-blank lines, trimmed and upper-cased, in
\* order, in the fresh reveal state; Reset Reveals keeps the words and their order and
\* returns to the fresh reveal state, as a new load of those words would.
C16_LoadAndResetAreFresh ==
  [][/\ c_call'[1] = "_on_reset_reveals"
          => /\ words' = words
             /\ Fresh(words', revealed', withheld_last')
     /\ (c_call'[1] = "_on_load_chain" /\ c_call'[4] = <<TRUE>>)
          => /\ Len(words') = Cardinality(NonBlankLines(c_call'[3]))
             /\ \A k \in 1..Len(words') :
                  /\ MatchesTrimmedIgnoringCase(NthNonBlank(c_call'[3], k), words'[k])
                  /\ IsUpperTrimmed(words'[k])
             /\ Fresh(words', revealed', withheld_last')]_vars

\* Reset Reveals has just run on the four-word chain
C16_Witness ==
  /\ c_call[1] = "_on_reset_reveals"
  /\ Len(words) = 4
  /\ At(revealed, 1) = <<FALSE, FALSE, FALSE>>
  /\ At(revealed, 2) = <<FALSE>>
  /\ At(revealed, 3) = <<TRUE, TRUE>>

\* C17: _is_puzzle_solved() is true exactly when is_word_complete(i) is true for every
\* interior index i, and it is false right after every successful load.
C17_SolvedIffAllInteriorComplete ==
  /\ [](_is_puzzle_solved(words, revealed)
          <=> \A i \in 1..(Len(words) - 2) : is_word_complete(revealed, i))
  /\ [](_is_puzzle_solved(words, revealed)
          <=> \A i \in 1..(Len(words) - 2) : \A k \in 1..Len(words[i + 1]) : revealed[i + 1][k])
  /\ [][(c_call'[1] = "_on_load_chain" /\ c_call'[4] = <<TRUE>>)
          => ~_is_puzzle_solved(words', revealed')]_vars

\* both interior words of the four-word chain are complete, the last by a guess
C17_Witness ==
  /\ Len(words) = 4
  /\ c_call[1] \in TryOps
  /\ c_call[4] = <<TRUE>>
  /\ _is_puzzle_solved(words, revealed)
  /\ At(revealed, 1) = <<TRUE, TRUE, TRUE>>
  /\ At(revealed, 2) = <<TRUE>>

\* C18: word_mask(0) and word_mask(last) are the stored first and last word, which are
\* trimmed and upper-cased, in every reachable reveal state.
C18_EndpointMaskIsWord ==
  \A i \in {0, Len(words) - 1} :
    /\ word_mask(words, revealed, withheld_last, i) = At(words, i)
    /\ IsUpperTrimmed(At(words, i))

\* reveal_next_letter was just called on the last word of the four-word chain while
\* an interior word is withheld
C18_Witness ==
  /\ Len(words) = 4
  /\ c_call[1] \in RevealOps
  /\ c_call[2] = 3
  /\ At(withheld_last, 1)
  /\ word_mask(words, revealed, withheld_last, 3) = <<"A", "B">>

\* number of revealed letters of word idx, and the position of its k-th revealed letter
NumShown(rev, idx) == Cardinality({p \in 1..Len(At(rev, idx)) : At(rev, idx)[p]})
KthShown(rev, idx, k) ==
  CHOOSE p \in 1..Len(At(rev, idx)) :
    At(rev, idx)[p] /\ Cardinality({q \in 1..p : At(rev, idx)[q]}) = k

\* C19: the mask of an interior word starts with exactly its revealed letters, in
\* position order and without placeholders; the withheld marker (" ?", or "?" when no
\* letter is shown) follows exactly when withheld_last is set and a letter is still
\* hidden; the mask of a fully revealed word is the word.
C19_InteriorMask ==
  \A i \in InteriorIdx(words) :
    LET m == word_mask(words, revealed, withheld_last, i)
        n == NumShown(revealed, i)
        marked == At(withheld_last, i) /\ NumHidden(revealed, i) > 0
    IN /\ Len(m) >= n
       /\ \A k \in 1..n : m[k] = At(words, i)[KthShown(revealed, i, k)]
       /\ marked => SubSeq(m, n + 1, Len(m)) = (IF n > 0 THEN <<" ", "?">> ELSE <<"?">>)
       /\ ~marked => Len(m) = n
       /\ NumHidden(revealed, i) = 0 => m = At(words, i)

\* the three-letter interior word shows two letters and the withheld marker, the
\* one-letter word shows the marker alone
C19_Witness ==
  /\ Len(words) = 4
  /\ word_mask(words, revealed, withheld_last, 1) = <<"B", "E", " ", "?">>
  /\ word_mask(words, revealed, withheld_last, 2) = <<"?">>

WordOps == {"_on_reveal_word_above", "_on_reveal_word_below"}

\* the interior words with a hidden letter
Unsolved(ws, rev) == {i \in 1..(Len(ws) - 2) : NumHidden(rev, i) > 0}

\* C20: a whole-word reveal targets an unsolved interior word (the topmost for
\* "above", the bottommost for "below"), never an endpoint, sets all its flags and
\* clears its withheld_last, and changes no other word; without an unsolved interior
\* word it changes nothing.
C20_RevealWholeWord ==
  [][\A op \in WordOps :
       c_call'[1] = op
         => /\ words' = words
            /\ Unsolved(words, revealed) = {}
                 => /\ c_call'[2] = -1
                    /\ UNCHANGED <<revealed, withheld_last>>
            /\ Unsolved(words, revealed) # {}
                 => LET i == c_call'[2] IN
                    /\ i \in Unsolved(words, revealed)
                    /\ \A j \in Unsolved(words, revealed) :
                         IF op = "_on_reveal_word_above" THEN i <= j ELSE i >= j
                    /\ At(revealed', i) = [k \in 1..Len(At(words, i)) |-> TRUE]
                    /\ ~At(withheld_last', i)
                    /\ Len(revealed') = Len(revealed)
                    /\ Len(withheld_last') = Len(withheld_last)
                    /\ \A j \in (0..(Len(words) - 1)) \ {i} :
                         /\ At(revealed', j) = At(revealed, j)
                         /\ At(withheld_last', j) = At(withheld_last, j)]_vars

\* the bottommost unsolved word was withheld and has just been revealed whole, while
\* the word above it is still partly hidden
C20_Witness ==
  /\ c_call = <<"_on_reveal_word_below", 2, <<>>, <<>>, TRUE>>
  /\ At(revealed, 2) = <<TRUE>>
  /\ ~At(withheld_last, 2)
  /\ At(revealed, 1) = <<TRUE, FALSE, FALSE>>

\* ------------------------------------------------------------------------
\* Properties of the timers (checked under Spec)
\* ------------------------------------------------------------------------
LetterOps == {"_on_give_letter", "_on_give_letter_above", "_on_give_letter_below"}

\* the last step was a host action that did something: a letter handler whose
\* reveal_next_letter returned a true flag, a whole-word reveal with a target, or a
\* guess that try_guess accepted
HostActed ==
  \/ c_call[1] \in LetterOps /\ c_call[2] # -1 /\ (c_call[4][1] \/ c_call[4][2])
  \/ c_call[1] \in WordOps /\ c_call[2] # -1
  \/ c_call[1] = "_on_submit_guess" /\ c_call[2] # -1 /\ c_call[4][1]

C22_RevealedIsPrefix ==
  \A i \in InteriorIdx(words) :
    LET flags == At(revealed, i)
        n == NumShown(revealed, i)
        m == word_mask(words, revealed, withheld_last, i)
    IN /\ Len(flags) = Len(At(words, i))
       /\ \A p, q \in 1..Len(flags) : (p < q /\ flags[q]) => flags[p]
       /\ Len(m) >= n
       /\ SubSeq(m, 1, n) = SubSeq(At(words, i), 1, n)

\* two of three letters of an interior word are revealed, the third is hidden
C22_Witness ==
  /\ c_call[1] \in RevealOps
  /\ c_call[2] = 1
  /\ At(words, 1) = <<"B", "E", "E">>
  /\ At(revealed, 1) = <<TRUE, TRUE, FALSE>>
  /\ SubSeq(word_mask(words, revealed, withheld_last, 1), 1, 2) = <<"B", "E">>

\* C23: an interior word goes from incomplete to complete only in a step that is an
\* accepted try_guess on it or a whole-word reveal of it; a step of reveal_next_letter
\* (direct or through a letter handler) leaves every incomplete interior word
\* incomplete and a puzzle that was not solved not solved.
C23_LettersNeverComplete ==
  [][/\ \A i \in InteriorIdx(words) \cap InteriorIdx(words') :
          (~is_word_complete(revealed, i) /\ is_word_complete(revealed', i))
            => \/ c_call'[1] \in TryOps /\ c_call'[2] = i /\ c_call'[4] = <<TRUE>>
               \/ c_call'[1] \in WordOps /\ c_call'[2] = i
     /\ c_call'[1] \in RevealOps
          => /\ words' = words
             /\ \A i \in InteriorIdx(words) :
                  ~is_word_complete(revealed, i) => ~is_word_complete(revealed', i)
             /\ ~_is_puzzle_solved(words, revealed) => ~_is_puzzle_solved(words', revealed')]_vars

\* Give Letter (below) was pressed again on the one-letter word that is the last
\* unsolved one: its letter stays hidden and the puzzle stays unsolved
C23_Witness ==
  /\ c_call = <<"_on_give_letter_below", 2, <<>>, <<FALSE, TRUE>>, TRUE>>
  /\ Len(At(words, 2)) = 1
  /\ ~is_word_complete(revealed, 2)
  /\ is_word_complete(revealed, 1)
  /\ ~_is_puzzle_solved(words, revealed)

\* ------------------------------------------------------------------------
\* Further properties of the Pyramid host (checked under SpecPyramid)
\* ------------------------------------------------------------------------
\* C24: reveal_upto equals current_index() while a prompt is unsolved and 5 when all
\* six are solved, so the cursor send_to_display would recompute is the one stored.
C24_CursorIsCurrentIndex ==
  /\ ~all_correct(correct) => reveal_upto = current_index(correct)
  /\ all_correct(correct) => reveal_upto = 5
  /\ LET cur == current_index(correct)
     IN set_reveal_upto(IF cur >= 0 THEN cur ELSE 5) = reveal_upto

\* the prompts were re-sent after the round was won
C24_Witness ==
  /\ p_call = <<"send_to_display", 0>>
  /\ all_correct(correct)
  /\ current_index(correct) = -1
  /\ reveal_upto = 5
  /\ finale_count = 1

\* ------------------------------------------------------------------------
\* Further properties of the timers (checked under Spec)
\* ------------------------------------------------------------------------
\* C25: in the Chain app, between handlers, a tick callback is scheduled exactly when
\* timer_running is true, at most one is scheduled, and it is the one _timer_job names.
C25_OneTickIffRunning ==
  /\ Cardinality(after_jobs) <= 1
  /\ (after_jobs # {}) <=> app_timer_running
  /\ after_jobs = (IF app_timer_running THEN {timer_job} ELSE {})
  /\ ~app_timer_running => timer_job = None

\* Start was pressed while the timer was running: the handle is the callback a tick
\* rescheduled (a start that schedules always gets id 1, as nothing else is pending)
C25_Witness ==
  /\ c_call[1] = "_on_timer_start"
  /\ app_timer_running
  /\ timer_job = 2
  /\ after_jobs = {2}

\* C26: the stored remaining-seconds value of either timer (Pyramid remaining_seconds,
\* Chain timer_seconds) is never negative, whatever integer the host enters as the
\* seconds setting.
C26_SecondsNeverNegative ==
  /\ remaining_seconds >= 0
  /\ timer_seconds >= 0

ptimer == <<remaining_seconds, timer_running, tick_jobs>>
ctimer == <<timer_seconds, app_timer_running, timer_job, after_jobs>>

\* a step in which the host leaves the timers alone: a tick callback, or a handler
\* that changes no timer variable
HandsOff ==
  \/ p_call'[1] = "_tick" /\ UNCHANGED cvars
  \/ c_call'[1] = "_update_timer_tick" /\ UNCHANGED pvars
  \/ UNCHANGED <<ptimer, ctimer>>

\* C27: when the host eventually leaves the timers alone, a timer that is running
\* with a positive value eventually stops and stays stopped with no tick callback
\* scheduled; the step that stops it then is a tick that reaches zero, and a timer
\* runs only with a positive value left.
C27_CountdownEnds ==
  /\ [](timer_running => remaining_seconds > 0)
  /\ [][(HandsOff /\ timer_running /\ ~timer_running')
          => (p_call'[1] = "_tick" /\ remaining_seconds' = 0 /\ p_expired' = 1)]_vars
  /\ [][(HandsOff /\ app_timer_running /\ ~app_timer_running')
          => (c_call'[1] = "_update_timer_tick" /\ timer_seconds' = 0 /\ c_expired' = 1)]_vars
  /\ (<>[][HandsOff]_vars)
       => /\ <>[](~timer_running /\ tick_jobs = 0)
          /\ <>[](~app_timer_running /\ after_jobs = {})

\* the Pyramid countdown started with 2 seconds has been ticked down to zero by the
\* callback its start scheduled: stopped, TIME! shown once, nothing left scheduled
C27_Witness ==
  /\ p_call = <<"_tick", 0>>
  /\ remaining_seconds = 0
  /\ ~timer_running
  /\ tick_jobs = 0
  /\ p_expired = 1
====
